---- MODULE Spec2Model ----
(***************************************************************************)
(* Request lifecycle of little-walk-request: the Service operations of     *)
(* src/src/core/service.rs executed against the MongoDB repository of      *)
(* src/src/repositories/mongodb.rs.  Every Service operation is one atomic *)
(* store command (find_one_and_update / update_many / insert_one), so one   *)
(* action per operation covers every interleaving of concurrent callers.   *)
(***************************************************************************)
EXTENDS Integers, Sequences, FiniteSets, TLC

\* ---------------------------------------------------------------- bounds
MaxRequests == 2        \* documents ever inserted into walk_requests
MaxTime == 2            \* Utc::now() takes the values 1..MaxTime (millisecond ticks)
MaxOps == 5             \* calls made in one behaviour
MaxCoordinate == 2      \* longitudes and radii are 0..MaxCoordinate
MaxPage == 2            \* Pagination.page is 0..MaxPage
MaxSize == 2            \* Pagination.size is 1..MaxSize
MaxLocations == 2       \* rows ever inserted into walking_locations

Walkers == {"w1", "w2"}
Owners == {"o1"}
Times == 1..MaxTime
ObjectIds == 1..MaxRequests
\* id strings a caller can pass: the hex form of an ObjectId, or a string
\* ObjectId::from_str rejects (modelled as 0)
IdStrings == 0..MaxRequests

\* ---------------------------------------------------------------- Option<T>
None == {}
Some(x) == {x}
Unwrap(o) == CHOOSE x \in o : TRUE

Range(s) == {s[i] : i \in 1..Len(s)}

\* ---------------------------------------------------------------- documents
\* the stored document: the fields From<WalkRequestCreate> writes plus the
\* fields From<WalkRequestUpdate> can set; a missing field is None.
\* dogs is the sequence of the dogs' ids, location the GeoJSON point's
\* coordinates [longitude, latitude] in whole units, created_at the
\* Utc::now() of the conversion.  dollar_add_to_set is the literal field
\* named "$addToSet" that From<WalkRequestUpdate> puts under $set.
NewDocument(value, now) ==
    [ dogs              |-> value.dogs,
      location          |-> <<value.longitude, value.latitude>>,
      created_by        |-> value.created_by,
      created_at        |-> now,
      accepted_by       |-> None,
      accepted_at       |-> None,
      started_at        |-> None,
      finished_at       |-> None,
      canceled_at       |-> None,
      acceptances       |-> None,
      dollar_add_to_set |-> None ]

\* the $switch with the Accepted and Started branches exchanged
StatusOf_started_first(doc) ==
    IF doc.canceled_at # None THEN "Canceled"
    ELSE IF doc.started_at # None THEN "Started"
    ELSE IF doc.accepted_at # None THEN "Accepted"
    ELSE IF doc.finished_at # None THEN "Finished"
    ELSE "Waiting"

\* WalkRequest::projection, the status $switch
StatusOf(doc) ==
    IF doc.canceled_at # None THEN "Canceled"
    ELSE IF doc.accepted_at # None THEN "Accepted"
    ELSE IF doc.started_at # None THEN "Started"
    ELSE IF doc.finished_at # None THEN "Finished"
    ELSE "Waiting"

\* WalkRequest::projection: the entity a read or a find_one_and_update returns
Projection(id, doc) ==
    [ id          |-> id,
      dogs        |-> doc.dogs,
      longitude   |-> doc.location[1],
      latitude    |-> doc.location[2],
      distance    |-> None,
      created_at  |-> doc.created_at,
      canceled_at |-> doc.canceled_at,
      accepted_by |-> doc.accepted_by,
      accepted_at |-> doc.accepted_at,
      started_at  |-> doc.started_at,
      finished_at |-> doc.finished_at,
      status      |-> StatusOf(doc),
      acceptances |-> doc.acceptances ]

\* ---------------------------------------------------------------- WalkRequestQuery
DefaultQuery ==
    [ id                       |-> None,
      dog_ids_includes_all     |-> None,
      dog_ids_includes_any     |-> None,
      nearby                   |-> None,
      accepted_by              |-> None,
      accepted_by_neq          |-> None,
      accepted_by_is_null      |-> None,
      acceptances_includes_all |-> None,
      acceptances_includes_any |-> None,
      created_by               |-> None ]

\* ObjectId::from_str
ObjectIdFromStr(s) == IF s \in ObjectIds THEN Some(s) ELSE None

\* a length check that lets a vector of more than three components pass
NearbyInvalid_too_short(nearby) == Len(nearby) < 3

\* the nearby.len() != 3 check of the conversion
NearbyInvalid(nearby) == Len(nearby) # 3

\* the conversion with the accepted_by_is_null branch left out
QueryDocument_ignores_is_null(value) ==
    LET idErr == value.id # None /\ ObjectIdFromStr(Unwrap(value.id)) = None
        k_id  == IF value.id # None /\ ~idErr
                 THEN Some(Unwrap(ObjectIdFromStr(Unwrap(value.id)))) ELSE None
        dg1   == IF value.dog_ids_includes_any # None
                 THEN Some([op |-> "$elemMatch$in",
                            arg |-> Unwrap(value.dog_ids_includes_any)])
                 ELSE None
        dg2   == IF value.dog_ids_includes_all # None
                 THEN Some([op |-> "$all", arg |-> Unwrap(value.dog_ids_includes_all)])
                 ELSE dg1
        ab1   == IF value.accepted_by # None
                 THEN Some([op |-> "eq", arg |-> value.accepted_by]) ELSE None
        ab2   == IF value.accepted_by_neq # None
                 THEN Some([op |-> "$ne", arg |-> value.accepted_by_neq]) ELSE ab1
        ab3   == ab2
        ac1   == IF value.acceptances_includes_all # None
                 THEN Some([op |-> "$all", arg |-> Unwrap(value.acceptances_includes_all)])
                 ELSE None
        ac2   == IF value.acceptances_includes_any # None
                 THEN Some([op |-> "$elemMatch$in",
                            arg |-> Unwrap(value.acceptances_includes_any)])
                 ELSE ac1
        nbErr == value.nearby # None /\ NearbyInvalid(Unwrap(value.nearby))
        geo   == IF value.nearby # None /\ ~nbErr
                 THEN Some([ near        |-> <<Unwrap(value.nearby)[1],
                                               Unwrap(value.nearby)[2]>>,
                             maxDistance |-> Unwrap(value.nearby)[3] ])
                 ELSE None
        cb    == IF value.created_by # None /\ value.nearby = None
                 THEN Some([op |-> "eq", arg |-> value.created_by]) ELSE None
    IN [ err         |-> idErr \/ nbErr,
         _id         |-> k_id,
         dogs_id     |-> dg2,
         accepted_by |-> ab3,
         acceptances |-> ac2,
         geo_near    |-> geo,
         created_by  |-> cb ]

\* impl TryFrom<WalkRequestQuery> for Document: a later insert under the same
\* key replaces the earlier one.  err is the ? on ObjectId::from_str or the
\* nearby length check.  With nearby the conversion returns the $geoNear
\* stage (geo_near) around the keys inserted so far, before created_by is
\* inserted; the other fields of the result are then the stage's "query".
QueryDocument(value) ==
    LET idErr == value.id # None /\ ObjectIdFromStr(Unwrap(value.id)) = None
        k_id  == IF value.id # None /\ ~idErr
                 THEN Some(Unwrap(ObjectIdFromStr(Unwrap(value.id)))) ELSE None
        dg1   == IF value.dog_ids_includes_any # None
                 THEN Some([op |-> "$elemMatch$in",
                            arg |-> Unwrap(value.dog_ids_includes_any)])
                 ELSE None
        dg2   == IF value.dog_ids_includes_all # None
                 THEN Some([op |-> "$all", arg |-> Unwrap(value.dog_ids_includes_all)])
                 ELSE dg1
        ab1   == IF value.accepted_by # None
                 THEN Some([op |-> "eq", arg |-> value.accepted_by]) ELSE None
        ab2   == IF value.accepted_by_neq # None
                 THEN Some([op |-> "$ne", arg |-> value.accepted_by_neq]) ELSE ab1
        ab3   == IF value.accepted_by_is_null # None
                 THEN (IF Unwrap(value.accepted_by_is_null)
                       THEN Some([op |-> "$eq", arg |-> None])
                       ELSE Some([op |-> "$neq", arg |-> None]))
                 ELSE ab2
        ac1   == IF value.acceptances_includes_all # None
                 THEN Some([op |-> "$all", arg |-> Unwrap(value.acceptances_includes_all)])
                 ELSE None
        ac2   == IF value.acceptances_includes_any # None
                 THEN Some([op |-> "$elemMatch$in",
                            arg |-> Unwrap(value.acceptances_includes_any)])
                 ELSE ac1
        nbErr == value.nearby # None /\ NearbyInvalid(Unwrap(value.nearby))
        geo   == IF value.nearby # None /\ ~nbErr
                 THEN Some([ near        |-> <<Unwrap(value.nearby)[1],
                                               Unwrap(value.nearby)[2]>>,
                             maxDistance |-> Unwrap(value.nearby)[3] ])
                 ELSE None
        cb    == IF value.created_by # None /\ value.nearby = None
                 THEN Some([op |-> "eq", arg |-> value.created_by]) ELSE None
    IN [ err         |-> idErr \/ nbErr,
         _id         |-> k_id,
         dogs_id     |-> dg2,
         accepted_by |-> ab3,
         acceptances |-> ac2,
         geo_near    |-> geo,
         created_by  |-> cb ]

\* the server rejects a filter with an operator it does not know ($neq)
FilterValid(q) ==
    q.accepted_by = None \/ Unwrap(q.accepted_by).op # "$neq"

\* the server's evaluation of one field condition against a stored field
FieldMatches(cond, field) ==
    CASE cond.op = "eq"  -> field = cond.arg
      [] cond.op = "$ne" -> field # cond.arg
      [] cond.op = "$eq" -> field = cond.arg
      [] cond.op = "$all" ->
            /\ field # None
            /\ Len(cond.arg) > 0
            /\ Range(cond.arg) \subseteq Range(Unwrap(field))
      [] cond.op = "$elemMatch$in" ->
            /\ field # None
            /\ Range(cond.arg) \cap Range(Unwrap(field)) # {}
      [] OTHER -> FALSE

\* the server's evaluation of a condition on the path "dogs.id": the path
\* runs through the dogs array to the dogs' ids, which are strings.  $all
\* holds when every listed id is some dog's id; $elemMatch applies to an
\* array found at the end of the path, and no dog's id is an array.
DogsIdMatches(cond, dogs) ==
    CASE cond.op = "$all" ->
            /\ Len(cond.arg) > 0
            /\ Range(cond.arg) \subseteq Range(dogs)
      [] OTHER -> FALSE

\* the server's evaluation of the whole filter: the conjunction of its keys
Matches(q, id, doc) ==
    /\ q._id = None \/ q._id = Some(id)
    /\ q.dogs_id = None \/ DogsIdMatches(Unwrap(q.dogs_id), doc.dogs)
    /\ q.accepted_by = None \/ FieldMatches(Unwrap(q.accepted_by), doc.accepted_by)
    /\ q.acceptances = None \/ FieldMatches(Unwrap(q.acceptances), doc.acceptances)
    /\ q.created_by = None \/ FieldMatches(Unwrap(q.created_by), Some(doc.created_by))

\* ---------------------------------------------------------------- WalkRequestUpdate
DefaultUpdate ==
    [ accepted_by             |-> None,
      accepted_at             |-> None,
      canceled_at             |-> None,
      started_at              |-> None,
      finished_at             |-> None,
      unset_accepted_by       |-> FALSE,
      unset_accepted_at       |-> FALSE,
      add_to_acceptances      |-> None,
      remove_from_acceptances |-> None ]

\* a conversion that also copies canceled_at into $set
UpdateDocument_copies_canceled_at(update) ==
    [ set   |-> [ accepted_by       |-> update.accepted_by,
                  accepted_at       |-> update.accepted_at,
                  canceled_at       |-> update.canceled_at,
                  dollar_add_to_set |-> update.add_to_acceptances,
                  started_at        |-> update.started_at,
                  finished_at       |-> update.finished_at ],
      unset |-> (IF update.unset_accepted_by THEN {"accepted_by"} ELSE {})
                \cup (IF update.unset_accepted_at THEN {"accepted_at"} ELSE {}),
      pull  |-> update.remove_from_acceptances ]

\* impl From<WalkRequestUpdate> for Document: {"$set": set, "$unset": unset,
\* "$pull": pull}.  update.canceled_at is not copied into set (the key
\* canceled_at of set is always absent), and add_to_acceptances is inserted
\* into set under the key "$addToSet".
UpdateDocument(update) ==
    [ set   |-> [ accepted_by       |-> update.accepted_by,
                  accepted_at       |-> update.accepted_at,
                  canceled_at       |-> None,
                  dollar_add_to_set |-> update.add_to_acceptances,
                  started_at        |-> update.started_at,
                  finished_at       |-> update.finished_at ],
      unset |-> (IF update.unset_accepted_by THEN {"accepted_by"} ELSE {})
                \cup (IF update.unset_accepted_at THEN {"accepted_at"} ELSE {}),
      pull  |-> update.remove_from_acceptances ]

\* the server refuses an update that names one path under two operators
UpdateConflict(u) ==
    \/ "accepted_by" \in u.unset /\ u.set.accepted_by # None
    \/ "accepted_at" \in u.unset /\ u.set.accepted_at # None

SetField(old, new) == IF new # None THEN new ELSE old

\* $pull: every array element equal to the value is removed; a missing array
\* stays missing
Pull(field, v) ==
    IF field = None \/ v = None THEN field
    ELSE Some(SelectSeq(Unwrap(field), LAMBDA x : x # Unwrap(v)))

\* an update whose $unset of accepted_at removes canceled_at as well
ApplyUpdate_unset_clears_canceled_at(doc, u) ==
    LET afterSet ==
            [ doc EXCEPT
                !.accepted_by       = SetField(@, u.set.accepted_by),
                !.accepted_at       = SetField(@, u.set.accepted_at),
                !.canceled_at       = SetField(@, u.set.canceled_at),
                !.dollar_add_to_set = SetField(@, u.set.dollar_add_to_set),
                !.started_at        = SetField(@, u.set.started_at),
                !.finished_at       = SetField(@, u.set.finished_at) ]
        afterUnset ==
            [ afterSet EXCEPT
                !.accepted_by = IF "accepted_by" \in u.unset THEN None ELSE @,
                !.accepted_at = IF "accepted_at" \in u.unset THEN None ELSE @,
                !.canceled_at = IF "accepted_at" \in u.unset THEN None ELSE @ ]
    IN [ afterUnset EXCEPT !.acceptances = Pull(@, u.pull) ]

\* an update whose accepted_by value is written under the key created_by
ApplyUpdate_writes_created_by(doc, u) ==
    LET afterSet ==
            [ doc EXCEPT
                !.created_by        = IF u.set.accepted_by # None
                                      THEN Unwrap(u.set.accepted_by) ELSE @,
                !.accepted_at       = SetField(@, u.set.accepted_at),
                !.canceled_at       = SetField(@, u.set.canceled_at),
                !.dollar_add_to_set = SetField(@, u.set.dollar_add_to_set),
                !.started_at        = SetField(@, u.set.started_at),
                !.finished_at       = SetField(@, u.set.finished_at) ]
        afterUnset ==
            [ afterSet EXCEPT
                !.accepted_by = IF "accepted_by" \in u.unset THEN None ELSE @,
                !.accepted_at = IF "accepted_at" \in u.unset THEN None ELSE @ ]
    IN [ afterUnset EXCEPT !.acceptances = Pull(@, u.pull) ]

\* the server applying $set, $unset and $pull to one document (an empty
\* operator document changes nothing)
ApplyUpdate(doc, u) ==
    LET afterSet ==
            [ doc EXCEPT
                !.accepted_by       = SetField(@, u.set.accepted_by),
                !.accepted_at       = SetField(@, u.set.accepted_at),
                !.canceled_at       = SetField(@, u.set.canceled_at),
                !.dollar_add_to_set = SetField(@, u.set.dollar_add_to_set),
                !.started_at        = SetField(@, u.set.started_at),
                !.finished_at       = SetField(@, u.set.finished_at) ]
        afterUnset ==
            [ afterSet EXCEPT
                !.accepted_by = IF "accepted_by" \in u.unset THEN None ELSE @,
                !.accepted_at = IF "accepted_at" \in u.unset THEN None ELSE @ ]
    IN [ afterUnset EXCEPT !.acceptances = Pull(@, u.pull) ]

\* whether the server refuses the update: a path conflict, or a $set of the
\* "$"-prefixed field on a server that does not store such names (dollarOk
\* tells which server it is)
UpdateRejected(u, dollarOk) ==
    \/ UpdateConflict(u)
    \/ u.set.dollar_add_to_set # None /\ ~dollarOk

Min(S) == CHOOSE x \in S : \A y \in S : x <= y

\* ---------------------------------------------------------------- Repository
\* an _id generator that hands out the newest existing _id again
NewObjectId_reused(db) == IF DOMAIN db = {} THEN 1 ELSE Cardinality(DOMAIN db)

\* Mongodb::create_walk_request: insert_one; the driver generates a fresh _id
NewObjectId(db) == Cardinality(DOMAIN db) + 1

create_walk_request(db, request, now) ==
    LET id == NewObjectId(db)
    IN [ res |-> "Ok", id |-> id,
         db  |-> [i \in DOMAIN db \cup {id} |->
                     IF i = id THEN NewDocument(request, now) ELSE db[i]] ]

\* Mongodb::get_walk_request: find_one by _id with the projection
get_walk_request(db, id) ==
    IF ObjectIdFromStr(id) = None THEN [res |-> "Error", entity |-> None]
    ELSE IF id \in DOMAIN db
         THEN [res |-> "Ok", entity |-> Some(Projection(id, db[id]))]
         ELSE [res |-> "NotMatched", entity |-> None]

\* Mongodb::update_walk_request_by_query: find_one_and_update, ReturnDocument::After
update_walk_request_by_query(db, query, update, dollarOk) ==
    LET q    == QueryDocument(query)
        u    == UpdateDocument(update)
        hits == {i \in DOMAIN db : Matches(q, i, db[i])}
    IN  IF q.err \/ ~FilterValid(q) THEN [res |-> "Error", entity |-> None, db |-> db]
        ELSE IF hits = {} THEN [res |-> "NotMatched", entity |-> None, db |-> db]
        ELSE IF UpdateRejected(u, dollarOk) THEN [res |-> "Error", entity |-> None, db |-> db]
        ELSE LET i   == Min(hits)
                 new == ApplyUpdate(db[i], u)
             IN [ res    |-> "Ok",
                  entity |-> Some(Projection(i, new)),
                  db     |-> [db EXCEPT ![i] = new] ]

\* update_many reporting the number of matched documents
update_walk_requests_by_query_matched_count(db, query, update, dollarOk) ==
    LET q    == QueryDocument(query)
        u    == UpdateDocument(update)
        hits == {i \in DOMAIN db : Matches(q, i, db[i])}
        new  == [i \in DOMAIN db |-> IF i \in hits THEN ApplyUpdate(db[i], u) ELSE db[i]]
    IN  IF q.err \/ ~FilterValid(q) THEN [res |-> "Error", n |-> 0, db |-> db]
        ELSE IF hits # {} /\ UpdateRejected(u, dollarOk)
             THEN [res |-> "Error", n |-> 0, db |-> db]
        ELSE [ res |-> "Ok",
               n   |-> Cardinality(hits),
               db  |-> new ]

\* Mongodb::update_walk_requests_by_query: update_many, returns modified_count
update_walk_requests_by_query(db, query, update, dollarOk) ==
    LET q    == QueryDocument(query)
        u    == UpdateDocument(update)
        hits == {i \in DOMAIN db : Matches(q, i, db[i])}
        new  == [i \in DOMAIN db |-> IF i \in hits THEN ApplyUpdate(db[i], u) ELSE db[i]]
    IN  IF q.err \/ ~FilterValid(q) THEN [res |-> "Error", n |-> 0, db |-> db]
        ELSE IF hits # {} /\ UpdateRejected(u, dollarOk)
             THEN [res |-> "Error", n |-> 0, db |-> db]
        ELSE [ res |-> "Ok",
               n   |-> Cardinality({i \in hits : new[i] # db[i]}),
               db  |-> new ]

\* Mongodb::update_walk_request: find_one_and_update by _id
update_walk_request(db, id, update, dollarOk) ==
    IF ObjectIdFromStr(id) = None THEN [res |-> "Error", entity |-> None, db |-> db]
    ELSE update_walk_request_by_query(db, [DefaultQuery EXCEPT !.id = Some(id)],
                                      update, dollarOk)

\* ---------------------------------------------------------------- queries
Abs(x) == IF x < 0 THEN -x ELSE x

\* the distance $geoNear computes between two points, in whole units
Distance(a, b) == Abs(a[1] - b[1]) + Abs(a[2] - b[2])

\* the _ids of S in natural (insertion) order
NaturalOrder(S) ==
    [k \in 1..Cardinality(S) |->
        CHOOSE x \in S : Cardinality({y \in S : y < x}) = k - 1]

\* seq reordered by the keys key[1..Len(seq)], ascending or descending;
\* elements with equal keys keep their order
SortByKey(seq, key, asc) ==
    LET n == Len(seq)
        Before(j, i) ==
            \/ IF asc THEN key[j] < key[i] ELSE key[j] > key[i]
            \/ key[j] = key[i] /\ j < i
        Rank(i) == Cardinality({j \in 1..n : Before(j, i)}) + 1
    IN [k \in 1..n |-> seq[CHOOSE i \in 1..n : Rank(i) = k]]

\* $skip / FindOptions::skip and $limit / FindOptions::limit, for n >= 0 and
\* m >= 1
Skip(seq, n) == SubSeq(seq, n + 1, Len(seq))
Limit(seq, m) == SubSeq(seq, 1, IF m < Len(seq) THEN m ELSE Len(seq))

\* the $sort stage placed before $skip and $limit
NearbyPipeline_sort_first(projected, sort_by, pagination) ==
    LET sorted ==
            IF sort_by = None THEN projected
            ELSE SortByKey(projected,
                           [k \in 1..Len(projected) |->
                               projected[k][Unwrap(sort_by).field]],
                           Unwrap(sort_by).order = "Asc")
    IN IF pagination = None THEN sorted
       ELSE Limit(Skip(sorted, (Unwrap(pagination).page - 1) * Unwrap(pagination).size),
                  Unwrap(pagination).size)

\* the stages query_walk_requests appends after $geoNear and $project:
\* $skip and $limit when pagination is given, then $sort when sort_by is given
NearbyPipeline(projected, sort_by, pagination) ==
    LET paged ==
            IF pagination = None THEN projected
            ELSE Limit(Skip(projected,
                            (Unwrap(pagination).page - 1) * Unwrap(pagination).size),
                       Unwrap(pagination).size)
    IN IF sort_by = None THEN paged
       ELSE SortByKey(paged,
                      [k \in 1..Len(paged) |-> paged[k][Unwrap(sort_by).field]],
                      Unwrap(sort_by).order = "Asc")

\* a $geoNear stage that does not apply maxDistance
GeoNear_unbounded(db, q) ==
    LET geo  == Unwrap(q.geo_near)
        dist == [i \in DOMAIN db |-> Distance(db[i].location, geo.near)]
        hits == NaturalOrder({i \in DOMAIN db : Matches(q, i, db[i])})
        near == SortByKey(hits, [k \in 1..Len(hits) |-> dist[hits[k]]], TRUE)
    IN [k \in 1..Len(near) |->
           [Projection(near[k], db[near[k]]) EXCEPT !.distance = Some(dist[near[k]])]]

\* the $geoNear stage followed by $project: the documents that satisfy the
\* stage's query within maxDistance of near, nearest first, each with its
\* distance
GeoNear(db, q) ==
    LET geo  == Unwrap(q.geo_near)
        dist == [i \in DOMAIN db |-> Distance(db[i].location, geo.near)]
        hits == NaturalOrder({i \in DOMAIN db :
                                /\ Matches(q, i, db[i])
                                /\ dist[i] <= geo.maxDistance})
        near == SortByKey(hits, [k \in 1..Len(hits) |-> dist[hits[k]]], TRUE)
    IN [k \in 1..Len(near) |->
           [Projection(near[k], db[near[k]]) EXCEPT !.distance = Some(dist[near[k]])]]

\* find with FindOptions sort, skip, limit and projection
Find(db, q, sort_by, pagination) ==
    LET hits   == NaturalOrder({i \in DOMAIN db : Matches(q, i, db[i])})
        sorted == IF sort_by = None THEN hits
                  ELSE SortByKey(hits,
                                 [k \in 1..Len(hits) |->
                                     db[hits[k]][Unwrap(sort_by).field]],
                                 Unwrap(sort_by).order = "Asc")
        paged  == IF pagination = None THEN sorted
                  ELSE Limit(Skip(sorted,
                                  (Unwrap(pagination).page - 1) * Unwrap(pagination).size),
                             Unwrap(pagination).size)
    IN [k \in 1..Len(paged) |-> Projection(paged[k], db[paged[k]])]

\* the $skip of the nearby pipeline: `(pagination.page - 1) * pagination.size`
\* over i64
NearbySkip(pagination) == (pagination.page - 1) * pagination.size

\* the skip of the find options: `(p.page as u64 - 1) * p.size as u64`.  For
\* page >= 1 it is a value.  For page 0 the subtraction overflows: a build
\* with overflow checks panics, another wraps.  A negative page is cast to
\* 2^64 + page, and the product overflows unless size is 1.  A wrapped
\* result is 2^64 + value, written with kind "wrapped".
FindSkip(pagination, overflowChecks) ==
    LET exact == (pagination.page - 1) * pagination.size
    IN  IF pagination.page >= 1 \/ pagination.size = 0
        THEN [kind |-> "value", value |-> IF pagination.size = 0 THEN 0 ELSE exact]
        ELSE IF overflowChecks /\ (pagination.page = 0 \/ pagination.size > 1)
        THEN [kind |-> "panic", value |-> 0]
        ELSE [kind |-> "wrapped", value |-> exact]

\* Mongodb::query_walk_requests.  "Invalid" is the error of the conversion of
\* the query, returned before any command is sent to the store.  With nearby
\* and a negative $skip the server refuses the pipeline; in the find branch
\* a wrapped skip is one no BSON integer holds and the driver returns an
\* error.
query_walk_requests(db, query, sort_by, pagination, overflowChecks) ==
    LET q      == QueryDocument(query)
        failed(kind) == [res |-> kind, entity |-> None, db |-> db]
    IN  IF q.err THEN failed("Invalid")
        ELSE IF ~FilterValid(q) THEN failed("Error")
        ELSE IF query.nearby # None
        THEN IF pagination # None /\ NearbySkip(Unwrap(pagination)) < 0
             THEN failed("Error")
             ELSE [ res    |-> "Ok",
                    entity |-> Some(NearbyPipeline(GeoNear(db, q), sort_by, pagination)),
                    db     |-> db ]
        ELSE IF pagination # None
                /\ FindSkip(Unwrap(pagination), overflowChecks).kind # "value"
             THEN failed(IF FindSkip(Unwrap(pagination), overflowChecks).kind = "panic"
                         THEN "Panic" ELSE "Error")
             ELSE [ res    |-> "Ok",
                    entity |-> Some(Find(db, q, sort_by, pagination)),
                    db     |-> db ]

\* ---------------------------------------------------------------- Service
\* the `n == 1` test of the count-based operations
CountResult(r) ==
    [ res    |-> IF r.res = "Error" THEN "Error"
                 ELSE IF r.n = 1 THEN "Ok" ELSE "NotMatched",
      entity |-> None,
      db     |-> r.db ]

\* accept without the accepted_by_is_null guard
accept_unguarded(db, request_id, user_id, now) ==
    update_walk_request_by_query(db,
        [DefaultQuery EXCEPT !.id = Some(request_id)],
        [DefaultUpdate EXCEPT !.accepted_by = Some(user_id),
                              !.accepted_at = Some(now)],
        FALSE)

\* accept that records the walker but not the time
accept_without_accepted_at(db, request_id, user_id, now) ==
    update_walk_request_by_query(db,
        [DefaultQuery EXCEPT !.id = Some(request_id),
                             !.accepted_by_is_null = Some(TRUE)],
        [DefaultUpdate EXCEPT !.accepted_by = Some(user_id)],
        FALSE)

accept(db, request_id, user_id, now) ==
    update_walk_request_by_query(db,
        [DefaultQuery EXCEPT !.id = Some(request_id),
                             !.accepted_by_is_null = Some(TRUE)],
        [DefaultUpdate EXCEPT !.accepted_by = Some(user_id),
                              !.accepted_at = Some(now)],
        FALSE)

remove_acceptance(db, request_id, user_id) ==
    CountResult(update_walk_requests_by_query(db,
        [DefaultQuery EXCEPT !.id = Some(request_id),
                             !.accepted_by_neq = Some(user_id)],
        [DefaultUpdate EXCEPT !.remove_from_acceptances = Some(user_id)],
        FALSE))

\* assign_accepter without the acceptances_includes_all guard
assign_accepter_any_walker(db, request_id, user_id, now) ==
    CountResult(update_walk_requests_by_query(db,
        [DefaultQuery EXCEPT !.id = Some(request_id),
                             !.accepted_by_is_null = Some(TRUE)],
        [DefaultUpdate EXCEPT !.accepted_by = Some(user_id),
                              !.accepted_at = Some(now)],
        FALSE))

assign_accepter(db, request_id, user_id, now) ==
    CountResult(update_walk_requests_by_query(db,
        [DefaultQuery EXCEPT !.id = Some(request_id),
                             !.accepted_by_is_null = Some(TRUE),
                             !.acceptances_includes_all = Some(<<user_id>>)],
        [DefaultUpdate EXCEPT !.accepted_by = Some(user_id),
                              !.accepted_at = Some(now)],
        FALSE))

\* dismiss_accepter that also removes the walker from acceptances
dismiss_accepter_removes_volunteer(db, request_id, user_id) ==
    CountResult(update_walk_requests_by_query(db,
        [DefaultQuery EXCEPT !.id = Some(request_id),
                             !.accepted_by = Some(user_id)],
        [DefaultUpdate EXCEPT !.unset_accepted_by = TRUE,
                              !.unset_accepted_at = TRUE,
                              !.remove_from_acceptances = Some(user_id)],
        FALSE))

\* dismiss_accepter that forgets unset_accepted_by
dismiss_accepter_keeps_accepted_by(db, request_id, user_id) ==
    CountResult(update_walk_requests_by_query(db,
        [DefaultQuery EXCEPT !.id = Some(request_id),
                             !.accepted_by = Some(user_id)],
        [DefaultUpdate EXCEPT !.unset_accepted_at = TRUE],
        FALSE))

\* dismiss_accepter that forgets unset_accepted_at
dismiss_accepter_keeps_accepted_at(db, request_id, user_id) ==
    CountResult(update_walk_requests_by_query(db,
        [DefaultQuery EXCEPT !.id = Some(request_id),
                             !.accepted_by = Some(user_id)],
        [DefaultUpdate EXCEPT !.unset_accepted_by = TRUE],
        FALSE))

dismiss_accepter(db, request_id, user_id) ==
    CountResult(update_walk_requests_by_query(db,
        [DefaultQuery EXCEPT !.id = Some(request_id),
                             !.accepted_by = Some(user_id)],
        [DefaultUpdate EXCEPT !.unset_accepted_by = TRUE,
                              !.unset_accepted_at = TRUE],
        FALSE))

\* cancel_unaccepted_request that looks the request up first and reports a
\* missing request apart from a failed guard
cancel_unaccepted_request_reports_missing(db, request_id, now) ==
    IF ObjectIdFromStr(request_id) # None /\ Unwrap(ObjectIdFromStr(request_id)) \notin DOMAIN db
    THEN [res |-> "NotFound", entity |-> None, db |-> db]
    ELSE CountResult(update_walk_requests_by_query(db,
            [DefaultQuery EXCEPT !.id = Some(request_id),
                                 !.accepted_by_is_null = Some(TRUE)],
            [DefaultUpdate EXCEPT !.canceled_at = Some(now)],
            FALSE))

cancel_unaccepted_request(db, request_id, now) ==
    CountResult(update_walk_requests_by_query(db,
        [DefaultQuery EXCEPT !.id = Some(request_id),
                             !.accepted_by_is_null = Some(TRUE)],
        [DefaultUpdate EXCEPT !.canceled_at = Some(now)],
        FALSE))

cancel_accepted_request(db, request_id, user_id, now) ==
    CountResult(update_walk_requests_by_query(db,
        [DefaultQuery EXCEPT !.id = Some(request_id),
                             !.accepted_by = Some(user_id)],
        [DefaultUpdate EXCEPT !.canceled_at = Some(now)],
        FALSE))

\* resign_acceptance that leaves the walker in acceptances
resign_acceptance_keeps_volunteer(db, request_id, user_id) ==
    CountResult(update_walk_requests_by_query(db,
        [DefaultQuery EXCEPT !.id = Some(request_id),
                             !.accepted_by = Some(user_id)],
        [DefaultUpdate EXCEPT !.unset_accepted_by = TRUE,
                              !.unset_accepted_at = TRUE],
        FALSE))

resign_acceptance(db, request_id, user_id) ==
    CountResult(update_walk_requests_by_query(db,
        [DefaultQuery EXCEPT !.id = Some(request_id),
                             !.accepted_by = Some(user_id)],
        [DefaultUpdate EXCEPT !.unset_accepted_by = TRUE,
                              !.unset_accepted_at = TRUE,
                              !.remove_from_acceptances = Some(user_id)],
        FALSE))

\* start_walk that matches on the id alone
start_walk_any_caller(db, request_id, user_id, now) ==
    update_walk_request_by_query(db,
        [DefaultQuery EXCEPT !.id = Some(request_id)],
        [DefaultUpdate EXCEPT !.started_at = Some(now)],
        FALSE)

start_walk(db, request_id, user_id, now) ==
    update_walk_request_by_query(db,
        [DefaultQuery EXCEPT !.id = Some(request_id),
                             !.accepted_by = Some(user_id)],
        [DefaultUpdate EXCEPT !.started_at = Some(now)],
        FALSE)

finish_walk(db, request_id, user_id, now) ==
    update_walk_request_by_query(db,
        [DefaultQuery EXCEPT !.id = Some(request_id),
                             !.accepted_by = Some(user_id)],
        [DefaultUpdate EXCEPT !.finished_at = Some(now)],
        FALSE)

\* impl From<WalkingLocationCreate> for Document
NewLocationDocument(value, now) ==
    [ walk_request_id |-> value.walk_request_id,
      longitude       |-> value.longitude,
      latitude        |-> value.latitude,
      created_at      |-> now ]

\* a write that replaces the rows of the same request
create_walking_location_upsert(rows, create, now) ==
    [ res  |-> "Ok",
      rows |-> Append(SelectSeq(rows,
                          LAMBDA r : r.walk_request_id # create.walk_request_id),
                      NewLocationDocument(create, now)) ]

\* Mongodb::create_walking_location: insert_one into walking_locations
create_walking_location(rows, create, now) ==
    [ res  |-> "Ok",
      rows |-> Append(rows, NewLocationDocument(create, now)) ]

\* Service::record_walking_location
record_walking_location(rows, walk_request_id, longitude, latitute, now) ==
    create_walking_location(rows,
        [ walk_request_id |-> walk_request_id,
          longitude       |-> longitude,
          latitude        |-> latitute ],
        now)

\* Service::nearby_walk_requests
nearby_walk_requests(db, latitute, longitude, radius, pagination, overflowChecks) ==
    query_walk_requests(db,
        [DefaultQuery EXCEPT !.accepted_by_is_null = Some(TRUE),
                             !.nearby = Some(<<longitude, latitute, radius>>)],
        None, Some(pagination), overflowChecks)

\* Service::my_walk_requests
my_walk_requests(db, user_id, pagination, overflowChecks) ==
    query_walk_requests(db,
        [DefaultQuery EXCEPT !.created_by = Some(user_id)],
        Some([field |-> "created_at", order |-> "Desc"]),
        Some(pagination), overflowChecks)

\* ---------------------------------------------------------------- state
VARIABLES
    store,   \* the walk_requests collection: _id -> document
    last,    \* the latest call: operation, arguments and what it returned
    race,    \* per request: the accept / assign_accepter attempts made since the
             \* request was last without accepted_by, the walkers that won, and
             \* the walker whose dismissal or resignation opened the race
    calls,   \* number of calls made so far
    walking_locations   \* the walking_locations collection, in insertion order

vars == <<store, last, race, calls, walking_locations>>

NoRace == [attempts |-> 0, eligible |-> 0, fails |-> 0, wins |-> <<>>, cleared |-> None]

Init ==
    /\ store = <<>>
    /\ last = [op |-> "none", arg |-> "", id |-> 0, user |-> "", res |-> "Ok",
               entity |-> None]
    /\ race = [r \in ObjectIds |-> NoRace]
    /\ calls = 0
    /\ walking_locations = <<>>

\* what every call does besides its store command
ReturnArg(op, arg, id, user, out) ==
    /\ calls < MaxOps
    /\ calls' = calls + 1
    /\ store' = out.db
    /\ last' = [op |-> op, arg |-> arg, id |-> id, user |-> user, res |-> out.res,
                entity |-> out.entity]
    /\ UNCHANGED walking_locations

Return(op, id, user, out) == ReturnArg(op, "", id, user, out)

\* an accept / assign_accepter attempt on a stored request; guardOk tells
\* whether the part of its predicate other than acceptedByIsNull held
Attempt(id, user, out, guardOk) ==
    race' = IF id \in DOMAIN store
            THEN [race EXCEPT ![id] =
                    [ cleared  |-> @.cleared,
                      attempts |-> @.attempts + 1,
                      eligible |-> @.eligible + (IF guardOk THEN 1 ELSE 0),
                      fails    |-> @.fails + (IF out.res = "NotMatched" THEN 1 ELSE 0),
                      wins     |-> IF out.res = "Ok" THEN Append(@.wins, user)
                                   ELSE @.wins ]]
            ELSE race

\* a dismiss / resign that cleared accepted_by opens a new race
Cleared(id, user, out) ==
    race' = IF out.res = "Ok"
            THEN [race EXCEPT ![id] = [NoRace EXCEPT !.cleared = Some(user)]]
            ELSE race

\* ---------------------------------------------------------------- actions
\* the requests a handler passes to create_walk_request.  No lifecycle
\* operation reads dogs, location or created_at, so one payload per owner is
\* created, at the first tick.
WalkRequestCreates ==
    { [dogs |-> <<d>>, longitude |-> 0, latitude |-> 0, created_by |-> o] :
        d \in {"d1"}, o \in Owners }

CreateWalkRequest ==
    \E request \in WalkRequestCreates :
        LET owner == request.created_by
            out   == create_walk_request(store, request, Min(Times))
        IN  /\ Cardinality(DOMAIN store) < MaxRequests
            /\ Return("create_walk_request", out.id, owner,
                      [res |-> out.res, entity |-> None, db |-> out.db])
            /\ UNCHANGED race

GetWalkRequest ==
    \E id \in IdStrings :
        LET out == get_walk_request(store, id)
        IN  /\ Return("get_walk_request", id, "",
                      [res |-> out.res, entity |-> out.entity, db |-> store])
            /\ UNCHANGED race

Accept ==
    \E id \in IdStrings, user \in Walkers, now \in Times :
        LET out == accept(store, id, user, now)
        IN  /\ Return("accept", id, user, out)
            /\ Attempt(id, user, out, TRUE)

RemoveAcceptance ==
    \E id \in IdStrings, user \in Walkers :
        /\ Return("remove_acceptance", id, user, remove_acceptance(store, id, user))
        /\ UNCHANGED race

AssignAccepter ==
    \E id \in IdStrings, user \in Walkers, now \in Times :
        LET out == assign_accepter(store, id, user, now)
        IN  /\ Return("assign_accepter", id, user, out)
            /\ Attempt(id, user, out,
                       /\ id \in DOMAIN store
                       /\ store[id].acceptances # None
                       /\ user \in Range(Unwrap(store[id].acceptances)))

DismissAccepter ==
    \E id \in IdStrings, user \in Walkers :
        LET out == dismiss_accepter(store, id, user)
        IN  /\ Return("dismiss_accepter", id, user, out)
            /\ Cleared(id, user, out)

CancelUnacceptedRequest ==
    \E id \in IdStrings, now \in Times :
        /\ Return("cancel_unaccepted_request", id, "",
                  cancel_unaccepted_request(store, id, now))
        /\ UNCHANGED race

CancelAcceptedRequest ==
    \E id \in IdStrings, user \in Walkers, now \in Times :
        /\ Return("cancel_accepted_request", id, user,
                  cancel_accepted_request(store, id, user, now))
        /\ UNCHANGED race

ResignAcceptance ==
    \E id \in IdStrings, user \in Walkers :
        LET out == resign_acceptance(store, id, user)
        IN  /\ Return("resign_acceptance", id, user, out)
            /\ Cleared(id, user, out)

StartWalk ==
    \E id \in IdStrings, user \in Walkers, now \in Times :
        /\ Return("start_walk", id, user, start_walk(store, id, user, now))
        /\ UNCHANGED race

FinishWalk ==
    \E id \in IdStrings, user \in Walkers, now \in Times :
        /\ Return("finish_walk", id, user, finish_walk(store, id, user, now))
        /\ UNCHANGED race

Next ==
    \/ CreateWalkRequest
    \/ GetWalkRequest
    \/ Accept
    \/ RemoveAcceptance
    \/ AssignAccepter
    \/ DismissAccepter
    \/ CancelUnacceptedRequest
    \/ CancelAcceptedRequest
    \/ ResignAcceptance
    \/ StartWalk
    \/ FinishWalk

Spec == Init /\ [][Next]_vars

\* ---------------------------------------------------------------- the Repository used directly
\* the WalkRequestUpdate values a caller of Repository::update_walk_request
\* passes here: one per field of interest, named by that field
UpdateKinds == {"add_to_acceptances", "remove_from_acceptances", "unset_accepted_by"}

UpdateOfKind(kind, user) ==
    CASE kind = "add_to_acceptances" ->
            [DefaultUpdate EXCEPT !.add_to_acceptances = Some(user)]
      [] kind = "remove_from_acceptances" ->
            [DefaultUpdate EXCEPT !.remove_from_acceptances = Some(user)]
      [] kind = "unset_accepted_by" ->
            [DefaultUpdate EXCEPT !.unset_accepted_by = TRUE,
                                  !.accepted_by = Some(user)]

\* Repository::update_walk_request; dollarOk is the server's choice on the
\* "$"-prefixed field name
UpdateWalkRequest ==
    \E id \in IdStrings, kind \in UpdateKinds, user \in Walkers, dollarOk \in BOOLEAN :
        /\ ReturnArg("update_walk_request", kind, id, user,
                     update_walk_request(store, id, UpdateOfKind(kind, user), dollarOk))
        /\ UNCHANGED race

NextRepository ==
    \/ Next
    \/ UpdateWalkRequest

RepositorySpec == Init /\ [][NextRepository]_vars

\* ================================================================ claims
Stored(id) == id \in DOMAIN store

\* ---------------------------------------------------------------- queries
\* The read side: query_walk_requests, nearby_walk_requests and
\* my_walk_requests against a collection of three requests.
Coordinates == 0..MaxCoordinate
QueryOwners == {"o1", "o2"}

Paginations ==
    { [page |-> p, size |-> z] : p \in 0..MaxPage, z \in 1..MaxSize }

SortBys ==
    {None} \cup { Some([field |-> "created_at", order |-> o]) : o \in {"Asc", "Desc"} }

\* Vec<f64> values of nearby: [longitude, latitude, radius] around the
\* origin, and vectors of two and of four components
NearbyVecs == { <<0, 0, r>> : r \in Coordinates }
MalformedVecs == { <<0, 0>>, <<0, 0, 1, 1>> }

\* one constraint of WalkRequestQuery: <<field, value>>
Constraints ==
    { <<"id", Some(1)>>, <<"id", Some(0)>>,
      <<"dog_ids_includes_all", Some(<<"d1", "d2">>)>>,
      <<"dog_ids_includes_any", Some(<<"d1">>)>>,
      <<"accepted_by", Some("w1")>>,
      <<"accepted_by_neq", Some("w1")>>,
      <<"accepted_by_is_null", Some(TRUE)>>,
      <<"accepted_by_is_null", Some(FALSE)>>,
      <<"acceptances_includes_all", Some(<<"w1">>)>>,
      <<"acceptances_includes_any", Some(<<"w1">>)>>,
      <<"created_by", Some("o1")>>, <<"created_by", Some("o2")>> }

With(query, c) == [query EXCEPT ![c[1]] = c[2]]

\* queries with no, one or two constraints
OneConstraint == {DefaultQuery} \cup { With(DefaultQuery, c) : c \in Constraints }
TwoConstraints == { With(q, c) : q \in OneConstraint, c \in Constraints }

QueryCall(query, sort_by, pagination) ==
    [query |-> query, sort_by |-> sort_by, pagination |-> pagination]

\* the calls of query_walk_requests made: predicates alone, nearby with one
\* more constraint, sorting and paging with and without nearby, and
\* malformed nearby vectors
QueryCalls ==
    { QueryCall(q, None, None) : q \in TwoConstraints }
    \cup { QueryCall([q EXCEPT !.nearby = Some(v)], None, None) :
               q \in OneConstraint, v \in NearbyVecs }
    \cup { QueryCall([q EXCEPT !.nearby = n], s, Some(p)) :
               q \in {DefaultQuery, With(DefaultQuery, <<"accepted_by_is_null", Some(TRUE)>>)},
               n \in {None} \cup {Some(v) : v \in NearbyVecs},
               s \in SortBys, p \in Paginations }
    \cup { QueryCall([q EXCEPT !.nearby = Some(v)], None, p) :
               q \in {DefaultQuery, With(DefaultQuery, <<"id", Some(0)>>)},
               v \in MalformedVecs,
               p \in {None, Some([page |-> 1, size |-> 1])} }

\* a stored request as create_walk_request and accept leave it
QueryDocument1(lon, owner, walker) ==
    [ NewDocument([dogs |-> <<"d1">>, longitude |-> lon, latitude |-> 0,
                   created_by |-> owner], Min(Times))
      EXCEPT !.accepted_by = walker,
             !.accepted_at = IF walker = None THEN None ELSE Some(Min(Times)) ]

QueryInit ==
    /\ \E lon1, lon2 \in Coordinates, o1, o2 \in QueryOwners, t2 \in Times,
          w1 \in {None} \cup {Some(w) : w \in Walkers} :
          store = << QueryDocument1(lon1, o1, w1),
                     NewDocument([dogs |-> <<"d1", "d2">>, longitude |-> lon2,
                                  latitude |-> 0, created_by |-> o2], t2),
                     NewDocument([dogs |-> <<"d2">>, longitude |-> 1,
                                  latitude |-> 0, created_by |-> "o1"], Min(Times)) >>
    /\ last = [op |-> "none", arg |-> "", id |-> 0, user |-> "", res |-> "Ok",
               entity |-> None]
    /\ race = [r \in ObjectIds |-> NoRace]
    /\ calls = MaxOps - 1
    /\ walking_locations = <<>>

QueryWalkRequests ==
    \E c \in QueryCalls, overflowChecks \in BOOLEAN :
        /\ ReturnArg("query_walk_requests", c, 0, "",
                     query_walk_requests(store, c.query, c.sort_by, c.pagination,
                                         overflowChecks))
        /\ UNCHANGED race

NearbyWalkRequests ==
    \E longitude \in Coordinates, radius \in Coordinates, p \in Paginations,
       overflowChecks \in BOOLEAN :
        /\ ReturnArg("nearby_walk_requests",
                     QueryCall([DefaultQuery EXCEPT
                                   !.accepted_by_is_null = Some(TRUE),
                                   !.nearby = Some(<<longitude, 0, radius>>)],
                               None, Some(p)),
                     0, "",
                     nearby_walk_requests(store, 0, longitude, radius, p, overflowChecks))
        /\ UNCHANGED race

MyWalkRequests ==
    \E user \in QueryOwners, p \in Paginations, overflowChecks \in BOOLEAN :
        /\ ReturnArg("my_walk_requests",
                     QueryCall([DefaultQuery EXCEPT !.created_by = Some(user)],
                               Some([field |-> "created_at", order |-> "Desc"]),
                               Some(p)),
                     0, user,
                     my_walk_requests(store, user, p, overflowChecks))
        /\ UNCHANGED race

NextQuery ==
    \/ QueryWalkRequests
    \/ NearbyWalkRequests
    \/ MyWalkRequests

QuerySpec == QueryInit /\ [][NextQuery]_vars

\* ---------------------------------------------------------------- locations
\* the lifecycle with record_walking_location next to it.  The request id
\* of a location is any string: it is stored as given.
RecordWalkingLocation ==
    \E id \in IdStrings, now \in Times :
        LET out == record_walking_location(walking_locations, id, 0, 0, now)
        IN  /\ calls < MaxOps
            /\ Len(walking_locations) < MaxLocations
            /\ calls' = calls + 1
            /\ walking_locations' = out.rows
            /\ last' = [op |-> "record_walking_location", arg |-> "", id |-> id,
                        user |-> "", res |-> out.res, entity |-> None]
            /\ UNCHANGED <<store, race>>

NextLocation ==
    \/ Next
    \/ RecordWalkingLocation

\* two calls left, made after: nothing; one create_walk_request; or a
\* create_walk_request and an accept by w1, with or without one location
\* recorded for that request
LocationInit ==
    /\ \E accepted \in BOOLEAN :
          /\ store \in { <<>>, <<QueryDocument1(0, "o1", IF accepted THEN Some("w1") ELSE None)>> }
          /\ race = [r \in ObjectIds |->
                        IF r = 1 /\ accepted /\ store # <<>>
                        THEN [NoRace EXCEPT !.attempts = 1, !.eligible = 1,
                                            !.wins = <<"w1">>]
                        ELSE NoRace]
          /\ walking_locations \in
                IF accepted /\ store # <<>>
                THEN { <<>>,
                       <<NewLocationDocument([walk_request_id |-> 1, longitude |-> 0,
                                              latitude |-> 0], Min(Times))>> }
                ELSE { <<>> }
    /\ last = [op |-> "none", arg |-> "", id |-> 0, user |-> "", res |-> "Ok",
               entity |-> None]
    /\ calls = MaxOps - 2

LocationSpec == LocationInit /\ [][NextLocation]_vars

\* ---------------------------------------------------------------- stored requests
\* The lifecycle run on a collection as any deployment may hold it: one
\* request in any state the mutations of WalkRequestUpdate describe
\* (accepted or not, started, finished, canceled, with or without
\* volunteers in acceptances), with two calls left.
StoredRequests ==
    { [ NewDocument(c, Min(Times)) EXCEPT
          !.accepted_by = walker,
          !.accepted_at = IF walker = None THEN None ELSE Some(Min(Times)),
          !.started_at  = IF started THEN Some(Min(Times)) ELSE None,
          !.finished_at = IF finished THEN Some(Min(Times)) ELSE None,
          !.canceled_at = IF canceled THEN Some(Min(Times)) ELSE None,
          !.acceptances = acceptances ] :
        c \in WalkRequestCreates,
        walker \in {None, Some("w1")},
        started \in BOOLEAN, finished \in BOOLEAN, canceled \in BOOLEAN,
        acceptances \in {None, Some(<<"w1">>), Some(<<"w2", "w1">>)} }

StoredInit ==
    /\ \E doc \in StoredRequests : store = <<doc>>
    /\ last = [op |-> "none", arg |-> "", id |-> 0, user |-> "", res |-> "Ok",
               entity |-> None]
    /\ race = [r \in ObjectIds |-> NoRace]
    /\ calls = MaxOps - 2
    /\ walking_locations = <<>>

\* every behaviour of Spec, and the lifecycle continued from a stored request
LifecycleSpec == (Init \/ StoredInit) /\ [][Next]_vars

\* ---------------------------------------------------------------- C1
\* C1 (as stated): in every race of accept / assign_accepter attempts on a
\* stored request that started without accepted_by, as soon as one attempt
\* has been made exactly one attempt has succeeded, all others reported
\* NotMatched, and accepted_by is the winner.
C1_ExactlyOneSucceeds ==
    \A r \in DOMAIN store :
        race[r].attempts >= 1 =>
            /\ Len(race[r].wins) = 1
            /\ race[r].fails = race[r].attempts - 1
            /\ store[r].accepted_by = Some(race[r].wins[1])

\* C1 (amended): at most one attempt of a race succeeds and every other one
\* reports NotMatched; one does succeed exactly when some attempt was an
\* accept, or an assign_accepter whose walker was in acceptances; then
\* accepted_by is the winner.
C1_AtMostOneSucceeds ==
    \A r \in DOMAIN store :
        /\ Len(race[r].wins) <= 1
        /\ race[r].fails = race[r].attempts - Len(race[r].wins)
        /\ (race[r].eligible >= 1) <=> (Len(race[r].wins) = 1)
        /\ Len(race[r].wins) = 1 => store[r].accepted_by = Some(race[r].wins[1])
        /\ Len(race[r].wins) = 0 => store[r].accepted_by = None

\* a race of three attempts, accept and assign_accepter among them, with one winner
C1_Witness ==
    \E r \in DOMAIN store :
        /\ race[r].attempts >= 3
        /\ race[r].eligible >= 2
        /\ race[r].eligible < race[r].attempts
        /\ Len(race[r].wins) = 1
        /\ store[r].accepted_by = Some(race[r].wins[1])

\* ---------------------------------------------------------------- C2
\* C2: in every state the lifecycle operations reach, every request has
\* accepted_by present if and only if accepted_at is present.
C2_AcceptedByIffAcceptedAt ==
    \A r \in DOMAIN store :
        (store[r].accepted_by # None) <=> (store[r].accepted_at # None)

\* a request assigned and then cleared again by dismiss_accepter, next to one
\* that is still assigned
C2_Witness ==
    /\ last.op = "dismiss_accepter"
    /\ last.res = "Ok"
    /\ store[last.id].accepted_by = None
    /\ store[last.id].accepted_at = None
    /\ \E r \in DOMAIN store : store[r].accepted_by # None /\ store[r].accepted_at # None

\* ---------------------------------------------------------------- C3
\* C3: a start_walk(r, u) step on a stored request sets started_at only when
\* accepted_by of r is u at that step; for any other caller (accepted_by
\* another walker, or absent) it returns NotMatched and nothing changes.
C3_StartOnlyByAccepter ==
    [][ (last'.op = "start_walk" /\ Stored(last'.id)) =>
            IF store[last'.id].accepted_by = Some(last'.user)
            THEN /\ last'.res = "Ok"
                 /\ store'[last'.id].started_at # None
            ELSE /\ last'.res = "NotMatched"
                 /\ store' = store ]_vars

\* start_walk refused for a caller while another walker is assigned
C3_Witness ==
    /\ last.op = "start_walk"
    /\ last.res = "NotMatched"
    /\ Stored(last.id)
    /\ store[last.id].accepted_by # None
    /\ store[last.id].accepted_by # Some(last.user)
    /\ store[last.id].started_at = None

\* ---------------------------------------------------------------- C4
IsVolunteer(call) ==
    call.op = "update_walk_request" /\ call.arg = "add_to_acceptances"

\* C4: a walker volunteering on a newly created request (the mutation
\* add_to_acceptances = u applied to the request's id) makes acceptances
\* exactly [u], and an assign_accepter(id, u) right after a volunteer call of
\* u on an unassigned request succeeds: accepted_by = u, status Accepted.
C4_VolunteerThenAssign ==
    [][ /\ (IsVolunteer(last') /\ Stored(last'.id)
              /\ \E c \in WalkRequestCreates, t \in Times :
                     store[last'.id] = NewDocument(c, t))
           => store'[last'.id].acceptances = Some(<<last'.user>>)
        /\ (IsVolunteer(last) /\ Stored(last.id) /\ store[last.id].accepted_by = None
              /\ last'.op = "assign_accepter" /\ last'.id = last.id
              /\ last'.user = last.user)
           => /\ last'.res = "Ok"
              /\ store'[last.id].accepted_by = Some(last.user)
              /\ StatusOf(store'[last.id]) = "Accepted" ]_vars

\* ---------------------------------------------------------------- C5
\* C5: an accept or assign_accepter step on a stored request that has
\* accepted_by set (to the caller or to anyone else) reports NotMatched and
\* changes nothing.
C5_AssignedStaysAssigned ==
    [][ (last'.op \in {"accept", "assign_accepter"} /\ Stored(last'.id)
           /\ store[last'.id].accepted_by # None)
        => /\ last'.res = "NotMatched"
           /\ store' = store ]_vars

\* accept refused because another walker holds the request, after an earlier
\* holder had been cleared and the request accepted anew
C5_Witness ==
    /\ last.op = "accept"
    /\ last.res = "NotMatched"
    /\ Stored(last.id)
    /\ store[last.id].accepted_by # None
    /\ store[last.id].accepted_by # Some(last.user)
    /\ race[last.id].cleared # None
    /\ race[last.id].attempts = 2

\* ---------------------------------------------------------------- C6
\* C6: on a stored request with accepted_by = u, a cancel_unaccepted_request
\* step reports NotMatched and changes nothing, and a
\* cancel_accepted_request(id, u) step reports success and leaves the
\* request with status Canceled.
C6_CancelByAssignment ==
    [][ (Stored(last'.id) /\ store[last'.id].accepted_by # None) =>
          /\ last'.op = "cancel_unaccepted_request"
               => (last'.res = "NotMatched" /\ store' = store)
          /\ (last'.op = "cancel_accepted_request"
                /\ store[last'.id].accepted_by = Some(last'.user))
               => (last'.res = "Ok" /\ StatusOf(store'[last'.id]) = "Canceled") ]_vars

\* ---------------------------------------------------------------- C7
\* C7: a dismiss_accepter or resign_acceptance step for (r, u), made after a
\* successful dismiss or resign of u on r with u not assigned again since,
\* reports NotMatched and changes nothing.
C7_SecondClearFails ==
    [][ (last'.op \in {"dismiss_accepter", "resign_acceptance"} /\ Stored(last'.id)
           /\ race[last'.id].cleared = Some(last'.user)
           /\ last'.user \notin Range(race[last'.id].wins))
        => /\ last'.res = "NotMatched"
           /\ store' = store ]_vars

\* resign refused for the walker whose dismissal or resignation cleared the request
C7_Witness ==
    /\ last.op = "resign_acceptance"
    /\ last.res = "NotMatched"
    /\ Stored(last.id)
    /\ race[last.id].cleared = Some(last.user)
    /\ race[last.id].wins = <<>>
    /\ store[last.id].accepted_by = None

\* ---------------------------------------------------------------- C8
Untouched(entity) ==
    /\ entity.status = "Waiting"
    /\ entity.accepted_by = None
    /\ entity.accepted_at = None
    /\ entity.started_at = None
    /\ entity.finished_at = None
    /\ entity.canceled_at = None

OptionalTimes == {None} \cup {Some(t) : t \in Times}

AnyDocuments ==
    [ dogs              : {<<"d1">>},
      location          : {<<0, 0>>},
      created_by        : Owners,
      created_at        : {Min(Times)},
      accepted_by       : {None, Some("w1")},
      accepted_at       : OptionalTimes,
      started_at        : OptionalTimes,
      finished_at       : OptionalTimes,
      canceled_at       : OptionalTimes,
      acceptances       : {None},
      dollar_add_to_set : {None} ]

\* a collection of two documents with any presence pattern of the timestamps
\* (the second with one value per timestamp), and one call left
StatusInit ==
    /\ store \in [1..2 -> AnyDocuments]
    /\ store[2].accepted_by = None
    /\ \A f \in {"accepted_at", "started_at", "finished_at", "canceled_at"} :
           store[2][f] \in {None, Some(1)}
    /\ last = [op |-> "none", arg |-> "", id |-> 0, user |-> "", res |-> "Ok",
               entity |-> None]
    /\ race = [r \in ObjectIds |-> NoRace]
    /\ calls = MaxOps - 1
    /\ walking_locations = <<>>

StatusSpec == StatusInit /\ [][GetWalkRequest]_vars

\* the rule of the specification, on the presence of the four timestamps
C9_Rule(canceled, accepted, started, finished) ==
    CASE canceled -> "Canceled"
      [] ~canceled /\ accepted -> "Accepted"
      [] ~canceled /\ ~accepted /\ started -> "Started"
      [] ~canceled /\ ~accepted /\ ~started /\ finished -> "Finished"
      [] OTHER -> "Waiting"

C9_Pattern(e) ==
    <<e.canceled_at # None, e.accepted_at # None, e.started_at # None,
      e.finished_at # None>>

\* C9: the status a read returns is the rule applied to the presence of
\* canceled_at, accepted_at, started_at and finished_at of the stored
\* document, and two stored documents with the same presence pattern have
\* the same status.
C9_StatusIsTheRule ==
    /\ (last.op = "get_walk_request" /\ last.res = "Ok") =>
           LET e == Unwrap(last.entity)
               d == store[last.id]
           IN  e.status = C9_Rule(d.canceled_at # None, d.accepted_at # None,
                                  d.started_at # None, d.finished_at # None)
    /\ \A r1, r2 \in DOMAIN store :
           C9_Pattern(store[r1]) = C9_Pattern(store[r2])
               => StatusOf(store[r1]) = StatusOf(store[r2])

\* a read of a request that is both started and finished, not accepted and not
\* canceled, next to a request with the same pattern but other values
C9_Witness ==
    /\ last.op = "get_walk_request"
    /\ last.res = "Ok"
    /\ Unwrap(last.entity).status = "Started"
    /\ Unwrap(last.entity).finished_at # None
    /\ C9_Pattern(store[1]) = C9_Pattern(store[2])
    /\ store[1] # store[2]

\* ---------------------------------------------------------------- C10
Occurrences(field, u) ==
    IF field = None THEN 0
    ELSE Cardinality({i \in 1..Len(Unwrap(field)) : Unwrap(field)[i] = u})

\* C10: after the mutation add_to_acceptances = u has been applied twice in a
\* row to a stored request, acceptances holds exactly one occurrence of u;
\* and no stored request ever holds a walker twice in acceptances.
C10_AddTwiceKeepsOne ==
    [][ /\ (IsVolunteer(last) /\ IsVolunteer(last') /\ Stored(last.id)
              /\ last'.id = last.id /\ last'.user = last.user)
           => Occurrences(store'[last.id].acceptances, last.user) = 1
        /\ \A r \in DOMAIN store', u \in Walkers :
              Occurrences(store'[r].acceptances, u) <= 1 ]_vars

\* ---------------------------------------------------------------- C11
\* C11: in every reachable state a stored request whose finished_at is set
\* also has started_at set (finish_walk never succeeds on a request that was
\* not started).
C11_FinishedImpliesStarted ==
    \A r \in DOMAIN store :
        store[r].finished_at # None => store[r].started_at # None

\* ---------------------------------------------------------------- C12
IsCancel(call) ==
    call.op \in {"cancel_unaccepted_request", "cancel_accepted_request"}

\* C12: a cancel_unaccepted_request or cancel_accepted_request call on a
\* stored request whose finished_at is set leaves its canceled_at as it was.
C12_NoCancelAfterFinish ==
    [][ (IsCancel(last') /\ Stored(last'.id) /\ store[last'.id].finished_at # None)
            => store'[last'.id].canceled_at = store[last'.id].canceled_at ]_vars

\* a cancel_accepted_request by the assigned walker of a finished request has
\* returned
C12_Witness ==
    /\ last.op = "cancel_accepted_request"
    /\ Stored(last.id)
    /\ store[last.id].finished_at # None
    /\ store[last.id].accepted_by = Some(last.user)

\* ---------------------------------------------------------------- C13
LifecycleOps ==
    { "accept", "remove_acceptance", "assign_accepter", "dismiss_accepter",
      "cancel_unaccepted_request", "cancel_accepted_request",
      "resign_acceptance", "start_walk", "finish_walk" }

\* the record a transition leaves when all field changes of its mutation are
\* applied to doc
C13_Mutation(op, doc, user, now) ==
    CASE op \in {"accept", "assign_accepter"} ->
            [doc EXCEPT !.accepted_by = Some(user), !.accepted_at = Some(now)]
      [] op = "remove_acceptance" ->
            [doc EXCEPT !.acceptances = Pull(@, Some(user))]
      [] op = "dismiss_accepter" ->
            [doc EXCEPT !.accepted_by = None, !.accepted_at = None]
      [] op = "resign_acceptance" ->
            [doc EXCEPT !.accepted_by = None, !.accepted_at = None,
                        !.acceptances = Pull(@, Some(user))]
      [] op \in {"cancel_unaccepted_request", "cancel_accepted_request"} ->
            [doc EXCEPT !.canceled_at = Some(now)]
      [] op = "start_walk" -> [doc EXCEPT !.started_at = Some(now)]
      [] op = "finish_walk" -> [doc EXCEPT !.finished_at = Some(now)]

\* C13: a lifecycle call that does not report success leaves every stored
\* request exactly as it was; a call that reports success has, in that one
\* step, applied every field change of its mutation to the targeted request
\* and changed no other request.
C13_AllOrNothing ==
    [][ last'.op \in LifecycleOps =>
            IF last'.res = "Ok"
            THEN /\ Stored(last'.id)
                 /\ \E now \in Times :
                        store' = [store EXCEPT ![last'.id] =
                                     C13_Mutation(last'.op, @, last'.user, now)]
            ELSE store' = store ]_vars

\* a resign_acceptance has succeeded while another request is stored
C13_Witness ==
    /\ last.op = "resign_acceptance"
    /\ last.res = "Ok"
    /\ Cardinality(DOMAIN store) = 2

\* ---------------------------------------------------------------- C14
\* C14: every step, by a lifecycle operation or by an update_walk_request
\* with any WalkRequestUpdate, keeps every stored request under its _id and
\* with the created_by it had.
C14_IdAndCreatedByKept ==
    [][ \A r \in DOMAIN store :
            /\ r \in DOMAIN store'
            /\ Projection(r, store'[r]).id = r
            /\ store'[r].created_by = store[r].created_by ]_vars

\* an update_walk_request has written to a stored request that a walker had
\* accepted
C14_Witness ==
    /\ last.op = "update_walk_request"
    /\ last.res = "Ok"
    /\ store[last.id].dollar_add_to_set # None
    /\ store[last.id].accepted_by # None

\* ---------------------------------------------------------------- C15
QueryOps == {"query_walk_requests", "nearby_walk_requests", "my_walk_requests"}

Members(field) == IF field = None THEN {} ELSE Range(Unwrap(field))

\* the record (id, doc) satisfies every constraint present in the query other
\* than nearby
Satisfies(query, id, doc) ==
    /\ query.id = None \/ query.id = Some(id)
    /\ query.dog_ids_includes_all = None
          \/ Members(query.dog_ids_includes_all) \subseteq Range(doc.dogs)
    /\ query.dog_ids_includes_any = None
          \/ Members(query.dog_ids_includes_any) \cap Range(doc.dogs) # {}
    /\ query.accepted_by = None \/ doc.accepted_by = query.accepted_by
    /\ query.accepted_by_neq = None \/ doc.accepted_by # query.accepted_by_neq
    /\ query.accepted_by_is_null = None
          \/ (Unwrap(query.accepted_by_is_null) <=> doc.accepted_by = None)
    /\ query.acceptances_includes_all = None
          \/ Members(query.acceptances_includes_all) \subseteq Members(doc.acceptances)
    /\ query.acceptances_includes_any = None
          \/ Members(query.acceptances_includes_any) \cap Members(doc.acceptances) # {}
    /\ query.created_by = None \/ query.created_by = Some(doc.created_by)

\* the ids of the records the latest call returned
ReturnedIds ==
    IF last.res = "Ok"
    THEN {Unwrap(last.entity)[k].id : k \in 1..Len(Unwrap(last.entity))}
    ELSE {}

\* C15: a query_walk_requests call without nearby, sort and pagination
\* returns exactly the stored requests that satisfy every constraint present
\* in its query, whatever combination of constraints is present.
C15_PredicateIsConjunction ==
    (/\ last.op = "query_walk_requests"
     /\ last.arg.query.nearby = None
     /\ last.arg.sort_by = None
     /\ last.arg.pagination = None)
    => ReturnedIds = {i \in DOMAIN store : Satisfies(last.arg.query, i, store[i])}

\* ---------------------------------------------------------------- C16
IsNearby(call) ==
    /\ call.op \in QueryOps
    /\ call.arg.query.nearby # None
    /\ Len(Unwrap(call.arg.query.nearby)) = 3

\* C16: every request a query with a nearby constraint returns satisfies
\* every other constraint present in the query.
C16_NearbyKeepsOtherConstraints ==
    IsNearby(last)
    => \A i \in ReturnedIds : Satisfies(last.arg.query, i, store[i])

\* ---------------------------------------------------------------- C17
\* what the latest call's query returns when it is neither paged nor sorted
Unpaged == query_walk_requests(store, last.arg.query, None, None, TRUE)

\* C17: every request a nearby query with radius R returns carries its
\* distance from the query point, and that distance is at most R; without
\* an explicit sort the returned requests are in ascending distance order,
\* and on page 1 the first of them is at distance 0 whenever the query
\* matches a request at distance 0.
C17_WithinRadiusNearestFirst ==
    (IsNearby(last) /\ last.res = "Ok")
    => LET nearby == Unwrap(last.arg.query.nearby)
           result == Unwrap(last.entity)
       IN  /\ \A k \in 1..Len(result) :
                 /\ result[k].distance =
                       Some(Distance(store[result[k].id].location, <<nearby[1], nearby[2]>>))
                 /\ Unwrap(result[k].distance) <= nearby[3]
           /\ last.arg.sort_by = None
                 => /\ \A j, k \in 1..Len(result) :
                          j < k => Unwrap(result[j].distance) <= Unwrap(result[k].distance)
                    /\ (/\ last.arg.pagination = None
                             \/ Unwrap(last.arg.pagination).page = 1
                        /\ \E k \in 1..Len(Unwrap(Unpaged.entity)) :
                               Unwrap(Unpaged.entity)[k].distance = Some(0))
                       => /\ Len(result) > 0
                          /\ result[1].distance = Some(0)

\* nearby_walk_requests has returned page 1 of two requests in reach, the
\* nearer one at distance 0, while a third request is out of reach
C17_Witness ==
    /\ last.op = "nearby_walk_requests"
    /\ last.res = "Ok"
    /\ Unwrap(last.arg.pagination).page = 1
    /\ Len(Unwrap(last.entity)) = 2
    /\ Unwrap(last.entity)[1].distance = Some(0)
    /\ Unwrap(last.entity)[2].distance # Some(0)
    /\ \E i \in DOMAIN store :
          /\ store[i].accepted_by = None
          /\ Distance(store[i].location,
                      <<Unwrap(last.arg.query.nearby)[1], Unwrap(last.arg.query.nearby)[2]>>)
                > Unwrap(last.arg.query.nearby)[3]

\* ---------------------------------------------------------------- C18
\* the full matching sequence of the latest call's query, after sorting
FullSorted == query_walk_requests(store, last.arg.query, last.arg.sort_by, None, TRUE)

\* C18: a query with pagination (page p >= 1, size s >= 1), with or without
\* nearby and with or without an explicit sort, returns exactly the records
\* at offsets [(p-1)*s, p*s) of the full matching sequence after sorting.
C18_PageOfSortedSequence ==
    (/\ last.op \in QueryOps
     /\ last.arg.pagination # None
     /\ Unwrap(last.arg.pagination).page >= 1
     /\ Unwrap(last.arg.pagination).size >= 1
     /\ FullSorted.res = "Ok")
    => /\ last.res = "Ok"
       /\ Unwrap(last.entity) =
             Limit(Skip(Unwrap(FullSorted.entity),
                        (Unwrap(last.arg.pagination).page - 1)
                            * Unwrap(last.arg.pagination).size),
                   Unwrap(last.arg.pagination).size)

\* offsets [(p-1)*s, p*s) of seq
PageOf(seq, pagination) ==
    Limit(Skip(seq, (pagination.page - 1) * pagination.size), pagination.size)

\* C18, amended: a query with pagination (page p >= 1, size s >= 1) and
\* without nearby, or with nearby and without an explicit sort, returns
\* exactly the records at offsets [(p-1)*s, p*s) of the full matching
\* sequence after sorting; with nearby and an explicit sort it returns the
\* records at those offsets of the distance-ordered matching sequence,
\* re-ordered by the sort.
C18_PageThenSortWithNearby ==
    (/\ last.op \in QueryOps
     /\ last.arg.pagination # None
     /\ Unwrap(last.arg.pagination).page >= 1
     /\ Unwrap(last.arg.pagination).size >= 1
     /\ FullSorted.res = "Ok")
    => /\ last.res = "Ok"
       /\ IF last.arg.query.nearby # None /\ last.arg.sort_by # None
          THEN LET page == PageOf(Unwrap(Unpaged.entity), Unwrap(last.arg.pagination))
               IN Unwrap(last.entity) =
                     SortByKey(page,
                               [k \in 1..Len(page) |->
                                   page[k][Unwrap(last.arg.sort_by).field]],
                               Unwrap(last.arg.sort_by).order = "Asc")
          ELSE Unwrap(last.entity) =
                  PageOf(Unwrap(FullSorted.entity), Unwrap(last.arg.pagination))

\* a sorted nearby query has returned a page that is not the same page of
\* the sorted matching sequence, with the farther request first
C18_Witness ==
    /\ last.op = "query_walk_requests"
    /\ last.res = "Ok"
    /\ last.arg.query.nearby # None
    /\ last.arg.sort_by # None
    /\ last.arg.pagination # None
    /\ Unwrap(last.arg.pagination).page = 1
    /\ Len(Unwrap(last.entity)) = 2
    /\ Unwrap(Unwrap(last.entity)[1].distance) > Unwrap(Unwrap(last.entity)[2].distance)
    /\ Unwrap(last.entity) #
          PageOf(Unwrap(FullSorted.entity), Unwrap(last.arg.pagination))

\* ---------------------------------------------------------------- C19
\* C19: a query whose nearby constraint does not have exactly three
\* components returns the validation error of the conversion, which is
\* raised before any command is sent to the store, and the call leaves the
\* store as it was.
C19_MalformedNearbyRejected ==
    [][ (/\ last'.op \in QueryOps
         /\ last'.arg.query.nearby # None
         /\ Len(Unwrap(last'.arg.query.nearby)) # 3)
        => /\ last'.res = "Invalid"
           /\ last'.entity = None
           /\ store' = store ]_vars

\* a paged query with an otherwise valid predicate and a nearby vector of
\* four components has returned
C19_Witness ==
    /\ last.op = "query_walk_requests"
    /\ last.arg.query.nearby # None
    /\ Len(Unwrap(last.arg.query.nearby)) = 4
    /\ last.arg.query.id = None
    /\ last.arg.pagination # None

\* ---------------------------------------------------------------- C20
\* C20: a record_walking_location step adds exactly one row, after the rows
\* already there, and leaves every walk request as it was; no step of any
\* operation changes or removes a row of walking_locations.
C20_LocationsAppendOnly ==
    [][ /\ Len(walking_locations') >= Len(walking_locations)
        /\ \A k \in 1..Len(walking_locations) :
              walking_locations'[k] = walking_locations[k]
        /\ last'.op = "record_walking_location"
              => /\ Len(walking_locations') = Len(walking_locations) + 1
                 /\ walking_locations'[Len(walking_locations')].walk_request_id = last'.id
                 /\ store' = store
        /\ last'.op # "record_walking_location"
              => walking_locations' = walking_locations ]_vars

\* a second location of the same accepted request has been recorded
C20_Witness ==
    /\ last.op = "record_walking_location"
    /\ Len(walking_locations) = MaxLocations
    /\ walking_locations[1].walk_request_id = walking_locations[2].walk_request_id
    /\ Stored(last.id)
    /\ store[last.id].accepted_by # None

\* ---------------------------------------------------------------- C21
\* C21: a remove_acceptance(r, u) step succeeds exactly when r is stored and
\* its accepted_by is not u, whether or not u is in acceptances; after a
\* success u is not in acceptances and nothing else of r has changed; a
\* failure is the GuardFailure outcome.
C21_RemoveAcceptanceIff ==
    [][ (last'.op = "remove_acceptance" /\ last'.id \in ObjectIds)
        => IF Stored(last'.id) /\ store[last'.id].accepted_by # Some(last'.user)
           THEN /\ last'.res = "Ok"
                /\ store' = [store EXCEPT ![last'.id].acceptances =
                                 Pull(@, Some(last'.user))]
           ELSE /\ last'.res = "NotMatched"
                /\ store' = store ]_vars

\* ---------------------------------------------------------------- C22
\* C22: an assign_accepter(r, u) step succeeds if and only if r is stored,
\* its accepted_by is absent and u is a member of its acceptances; a success
\* sets accepted_by = u and accepted_at and changes nothing else, a failure
\* changes nothing.
C22_AssignAccepterIff ==
    [][ (last'.op = "assign_accepter" /\ last'.id \in ObjectIds)
        => IF /\ Stored(last'.id)
              /\ store[last'.id].accepted_by = None
              /\ last'.user \in Members(store[last'.id].acceptances)
           THEN /\ last'.res = "Ok"
                /\ \E now \in Times :
                      store' = [store EXCEPT ![last'.id].accepted_by = Some(last'.user),
                                             ![last'.id].accepted_at = Some(now)]
           ELSE /\ last'.res = "NotMatched"
                /\ store' = store ]_vars

\* an assign_accepter of a volunteer has succeeded
C22_Witness ==
    /\ last.op = "assign_accepter"
    /\ last.res = "Ok"
    /\ store[last.id].accepted_by = Some(last.user)
    /\ last.user \in Members(store[last.id].acceptances)

\* ---------------------------------------------------------------- C23
\* C23: a dismiss_accepter(r, u) step succeeds if and only if r is stored
\* and its accepted_by is u; a success clears accepted_by and accepted_at and
\* leaves acceptances, started_at, finished_at, canceled_at and every other
\* field as they were; a failure changes nothing.
C23_DismissAccepterIff ==
    [][ (last'.op = "dismiss_accepter" /\ last'.id \in ObjectIds)
        => IF Stored(last'.id) /\ store[last'.id].accepted_by = Some(last'.user)
           THEN /\ last'.res = "Ok"
                /\ store' = [store EXCEPT ![last'.id].accepted_by = None,
                                           ![last'.id].accepted_at = None]
           ELSE /\ last'.res = "NotMatched"
                /\ store' = store ]_vars

\* a walker who is in acceptances has been dismissed from a started request
C23_Witness ==
    /\ last.op = "dismiss_accepter"
    /\ last.res = "Ok"
    /\ last.user \in Members(store[last.id].acceptances)
    /\ store[last.id].started_at # None

\* ---------------------------------------------------------------- C24
\* C24: a resign_acceptance(r, u) step succeeds if and only if r is stored
\* and its accepted_by is u; a success clears accepted_by and accepted_at
\* and removes u from acceptances in that one step and changes nothing
\* else; an assign_accepter(r, u) as the next call reports GuardFailure.
C24_ResignAcceptanceIff ==
    [][ /\ (last'.op = "resign_acceptance" /\ last'.id \in ObjectIds)
           => IF Stored(last'.id) /\ store[last'.id].accepted_by = Some(last'.user)
              THEN /\ last'.res = "Ok"
                   /\ store' = [store EXCEPT ![last'.id].accepted_by = None,
                                              ![last'.id].accepted_at = None,
                                              ![last'.id].acceptances =
                                                  Pull(@, Some(last'.user))]
                   /\ last'.user \notin Members(store'[last'.id].acceptances)
              ELSE /\ last'.res = "NotMatched"
                   /\ store' = store
        /\ (/\ last.op = "resign_acceptance" /\ last.res = "Ok"
            /\ last'.op = "assign_accepter"
            /\ last'.id = last.id /\ last'.user = last.user)
           => /\ last'.res = "NotMatched"
              /\ store' = store ]_vars

\* a volunteer has resigned and another volunteer is left in acceptances
C24_Witness ==
    /\ last.op = "resign_acceptance"
    /\ last.res = "Ok"
    /\ store[last.id].acceptances = Some(<<"w2">>)
    /\ last.user = "w1"

\* ---------------------------------------------------------------- C25
CountBasedOps ==
    {"remove_acceptance", "assign_accepter", "dismiss_accepter",
     "resign_acceptance", "cancel_unaccepted_request", "cancel_accepted_request"}

\* C25: a count-based transition that does not succeed reports the same
\* outcome whether no request has the id or the request is stored and its
\* guard is false: the result NotMatched, no entity, and an unchanged store.
C25_MissingLikeGuardFailure ==
    [][ (/\ last'.op \in CountBasedOps
         /\ last'.id \in ObjectIds
         /\ (~Stored(last'.id) \/ last'.res # "Ok"))
        => /\ last'.res = "NotMatched"
           /\ last'.entity = None
           /\ store' = store ]_vars

\* a count-based transition was tried on an id that no request has, while
\* another request is stored
C25_Witness ==
    /\ last.op \in CountBasedOps
    /\ last.id \in ObjectIds
    /\ ~Stored(last.id)
    /\ store # <<>>
    /\ last.res = "NotMatched"

\* ---------------------------------------------------------------- C26
\* C26: for every query call with a pagination whose query converts, the
\* skip offset handed to the store is the integer (page - 1) * size, is not
\* negative and is not a wrapped value, in the nearby pipeline and in the
\* find options, on every build.
C26_SkipOffsetExact ==
    (/\ last.op \in QueryOps
     /\ last.res # "Invalid"
     /\ last.arg.pagination # None)
    => LET p     == Unwrap(last.arg.pagination)
           exact == (p.page - 1) * p.size
       IN  IF last.arg.query.nearby # None
           THEN NearbySkip(p) = exact /\ NearbySkip(p) >= 0
           ELSE \A overflowChecks \in BOOLEAN :
                   /\ FindSkip(p, overflowChecks) = [kind |-> "value", value |-> exact]
                   /\ exact >= 0

\* ---------------------------------------------------------------- C27
\* C27: no step clears or changes a canceled_at that is set: a request whose
\* status is Canceled stays stored with the same canceled_at and the status
\* Canceled after every lifecycle operation.
C27_CancellationAbsorbing ==
    [][ \A r \in DOMAIN store :
            StatusOf(store[r]) = "Canceled"
            => /\ r \in DOMAIN store'
               /\ store'[r].canceled_at = store[r].canceled_at
               /\ StatusOf(store'[r]) = "Canceled" ]_vars

\* a lifecycle operation has changed a canceled request, which is still
\* Canceled
C27_Witness ==
    /\ last.op \in LifecycleOps
    /\ last.res = "Ok"
    /\ Stored(last.id)
    /\ StatusOf(store[last.id]) = "Canceled"

WalkStatuses == {"Started", "Finished"}

\* C29: the entity a successful start_walk or finish_walk returns for a
\* request that is not canceled has the status Accepted; every returned
\* entity carries the status of the stored request; and a request takes the
\* status Started or Finished only in a successful dismiss_accepter or
\* resign_acceptance step by its accepter, on a request whose started_at or
\* finished_at was already set.
C29_WalkStatusOnlyAfterClear ==
    [][ /\ (/\ last'.op \in {"start_walk", "finish_walk"}
            /\ last'.res = "Ok"
            /\ Unwrap(last'.entity).canceled_at = None)
           => Unwrap(last'.entity).status = "Accepted"
        /\ (last'.op \in LifecycleOps \cup {"get_walk_request"} /\ last'.entity # None)
           => Unwrap(last'.entity).status = StatusOf(store'[last'.id])
        /\ \A r \in DOMAIN store' :
              (/\ StatusOf(store'[r]) \in WalkStatuses
               /\ ~(r \in DOMAIN store /\ StatusOf(store[r]) \in WalkStatuses))
              => /\ last'.op \in {"dismiss_accepter", "resign_acceptance"}
                 /\ last'.res = "Ok"
                 /\ last'.id = r
                 /\ r \in DOMAIN store
                 /\ store[r].accepted_by = Some(last'.user)
                 /\ store[r].accepted_at # None
                 /\ (store[r].started_at # None \/ store[r].finished_at # None) ]_vars

\* the accepter of a started request was dismissed and the request reads
\* Started
C29_Witness ==
    /\ last.op = "dismiss_accepter"
    /\ last.res = "Ok"
    /\ StatusOf(store[last.id]) = "Started"
    /\ store[last.id].canceled_at = None

====
